---- MODULE Spec2Model ----
(***************************************************************************)
(* Model of the regular-expression compiler (src/src/lib.rs) and of the    *)
(* automaton execution engine (src/src/nfa.rs).                            *)
(*                                                                         *)
(* A behaviour is one use of the library: compile(expression) followed by  *)
(* NFA::run(input), then a second evaluation on the same inputs, either    *)
(* on the automaton already compiled or on a freshly compiled one.  A      *)
(* caller may also hand a transition map of its own to NFA::new and run    *)
(* the automaton it gets.                                                  *)
(*                                                                         *)
(* Strings are sequences of one-character strings.  A Transition map       *)
(* HashMap<(u32, NFAChar), u32> is a function whose domain is the set of   *)
(* keys present.  Option<T> is <<>> for None and <<v>> for Some(v).        *)
(***************************************************************************)
EXTENDS Integers, Sequences, FiniteSets, TLC

VARIABLES
    expression,       \* the pattern handed to compile
    input,            \* the string handed to run
    overflow_checks,  \* build profile: TRUE = arithmetic overflow panics, FALSE = it wraps
    built_by,         \* "compile": the automaton comes from compile; "new": from the caller
    pc,               \* position of the program
    round,            \* 1 = first evaluation, 2 = second evaluation of the same inputs
    idx,              \* iterate_through_expression: index of the next pattern character
    start,            \* compile: `start`
    transitions,      \* compile: `transitions`, then NFA.transitions
    current_state,    \* iterate_through_expression: `current_state`
    escape,           \* iterate_through_expression: `escape`
    last_char,        \* iterate_through_expression: `last_char`
    end,              \* compile: `end`
    accepting_states, \* NFA.accepting_states
    last_state,       \* run: `last_state`
    current_states,   \* run: `current_states`
    pos,              \* run: index of the next input character
    eps_curr,         \* follow_epilon_transition: `curr` of the innermost call
    depth,            \* follow_epilon_transition: number of nested calls
    result,           \* Option<bool>: value returned by run in this evaluation
    first_result      \* Option<bool>: value returned by run in the first evaluation

vars == <<expression, input, overflow_checks, built_by, pc, round, idx, start, transitions,
          current_state, escape, last_char, end, accepting_states, last_state,
          current_states, pos, eps_curr, depth, result, first_result>>

compileVars == <<start, transitions, current_state, escape, last_char, end, idx>>
runVars == <<last_state, current_states, pos, eps_curr, depth>>

(***************************************************************************)
(* Bounds of the model.                                                    *)
(***************************************************************************)
MaxPatLen == 2   \* longest pattern of the exhaustive pattern family
MaxInLen  == 2   \* longest input paired with the exhaustive pattern family
MaxWord   == 2   \* longest literal word w of the patterns w, ^w, w$
MaxLitIn  == 3   \* longest input paired with the patterns w, ^w, w$
MaxRep    == 2   \* largest exponent of the inputs a^i b^j c^k d
MaxDepth  == 8   \* nested calls counted on a recursion of follow_epilon_transition that never ends

PatternAlphabet == {"a", "^", "$", "?", "*", "+", ".", "\\"}
InputAlphabet   == {"a", "x"}
WordAlphabet    == {"a", "b"}
WordInputAlphabet == {"a", "b", "x"}
MetaChars       == {"^", "$", "?", "*", "+", ".", "\\"}

SeqsUpTo(A, n) == UNION {[1..k -> A] : k \in 0..n}
Rep(ch, n) == [i \in 1..n |-> ch]

OptPattern  == <<"a", "?", "b", "?", "c", "?", "d">>
StarPattern == <<"a", "*", "b", "*", "c", "*", "d">>
PlusPattern == <<"a", "+", "b", "+", "c", "+", "d">>

Words == SeqsUpTo(WordAlphabet, MaxWord) \ {<<>>}
ABCD(i, j, k) == Rep("a", i) \o Rep("b", j) \o Rep("c", k) \o <<"d">>
QuantInputs == {ABCD(i, j, k) : i \in 0..MaxRep, j \in 0..MaxRep, k \in 0..MaxRep}
OptInputs == {ABCD(i, j, k) : i \in 0..1, j \in 0..1, k \in 0..1}

GeneralCases == SeqsUpTo(PatternAlphabet, MaxPatLen) \X SeqsUpTo(InputAlphabet, MaxInLen)
LiteralCases ==
    (UNION {{w, <<"^">> \o w, w \o <<"$">>} : w \in Words}) \X SeqsUpTo(WordInputAlphabet, MaxLitIn)
QuantifierCases == {OptPattern, StarPattern, PlusPattern} \X QuantInputs

\* an escaped character after a literal, against inputs that hold metacharacters
EscapeDotPattern == <<"a", "\\", ".", "c", "d">>
EscapeCases ==
    ({<<"a", "\\", m>> : m \in PatternAlphabet} \cup {EscapeDotPattern})
        \X ({<<"a", x>> : x \in PatternAlphabet \cup {"x"}}
              \cup {<<"a", ".", "c", "d">>, <<"a", "x", "c", "d">>})

\* a quantified literal followed by the same literal
RepeatPatterns ==
    {<<"a", "+", "a">>, <<"a", "*", "a">>,
     <<"^", "a", "+", "a", "$">>, <<"^", "a", "*", "a", "$">>}
RepeatCases == RepeatPatterns \X {Rep("a", n) : n \in 0..3}

\* MaxDepth optional items in a row: a?a?...a?
OptChainPattern == [i \in 1..(2 * MaxDepth) |-> IF i % 2 = 1 THEN "a" ELSE "?"]
OptChainCases == {OptChainPattern} \X {<<>>, <<"a">>}

Cases == GeneralCases \cup LiteralCases \cup QuantifierCases \cup EscapeCases
             \cup RepeatCases \cup OptChainCases

(***************************************************************************)
(* nfa.rs: NFAChar and Transition.                                         *)
(***************************************************************************)
Epsilon == <<"Epsilon", "">>
If(c)   == <<"If", c>>
Else    == <<"Else", "">>

EmptyMap == [k \in {} |-> 0]
Insert(T, key, v) == [k \in (DOMAIN T) \cup {key} |-> IF k = key THEN v ELSE T[k]]
Remove(T, key) == [k \in (DOMAIN T) \ {key} |-> T[k]]
Get(T, key) == IF key \in DOMAIN T THEN <<T[key]>> ELSE <<>>

FromList(edges) ==
    [k \in {e[1] : e \in edges} |-> (CHOOSE e \in edges : e[1] = k)[2]]

(***************************************************************************)
(* Automata a caller hands to NFA::new: those of the tests of nfa.rs, and  *)
(* two whose Epsilon transitions form a cycle.                             *)
(***************************************************************************)
TransitionOnSome ==
    [transitions |-> FromList({<<<<0, Else>>, 1>>, <<<<0, If("0")>>, 2>>}),
     accepting_states |-> {1}]
UseLoopAtStart ==
    [transitions |-> FromList({<<<<0, Else>>, 0>>, <<<<0, If("1")>>, 1>>}),
     accepting_states |-> {1}]
EpsilonTransition ==
    [transitions |-> FromList({<<<<0, If("a")>>, 1>>, <<<<0, Epsilon>>, 1>>,
                               <<<<1, If("b")>>, 2>>, <<<<1, Epsilon>>, 2>>,
                               <<<<2, If("c")>>, 3>>, <<<<2, Epsilon>>, 3>>,
                               <<<<3, If("d")>>, 4>>}),
     accepting_states |-> {4}]
EpsilonSelfLoop ==
    [transitions |-> FromList({<<<<0, Epsilon>>, 0>>}), accepting_states |-> {0}]
EpsilonTwoCycle ==
    [transitions |-> FromList({<<<<0, Epsilon>>, 1>>, <<<<1, Epsilon>>, 0>>}),
     accepting_states |-> {1}]
\* an acyclic chain of MaxDepth Epsilon edges, 0 -> 1 -> ... -> MaxDepth
EpsilonChain ==
    [transitions |-> FromList({<<<<i, Epsilon>>, i + 1>> : i \in 0..(MaxDepth - 1)}),
     accepting_states |-> {MaxDepth}]
CallerAutomata ==
    {TransitionOnSome, UseLoopAtStart, EpsilonTransition, EpsilonSelfLoop, EpsilonTwoCycle,
     EpsilonChain}
CallerInputs ==
    {<<>>, <<"0">>, <<"1">>, <<"0", "0", "0", "1">>, <<"a", "c", "d">>}

(***************************************************************************)
(* u32 arithmetic.  TLC integers are 32-bit signed, so a u32 value is kept *)
(* as its representative modulo 2^32 in the signed range: u32::MAX is the  *)
(* representative of -1.  The compiler only ever subtracts 1.              *)
(***************************************************************************)
U32_MAX == 0 - 1
Sub1(n) == IF n = 0 THEN U32_MAX ELSE n - 1
Underflows(n) == n = 0

(***************************************************************************)
(* lib.rs: check_start.                                                    *)
(***************************************************************************)
CheckStart_LoopWhenAnchored(expr) ==
    IF Len(expr) > 0 /\ expr[1] = "^"
    THEN [start |-> TRUE, transitions |-> Insert(EmptyMap, <<0, Else>>, 0)]
    ELSE [start |-> FALSE, transitions |-> Insert(EmptyMap, <<0, Else>>, 0)]

CheckStart(expr) ==
    IF Len(expr) > 0 /\ expr[1] = "^"
    THEN [start |-> TRUE, transitions |-> EmptyMap]
    ELSE [start |-> FALSE, transitions |-> Insert(EmptyMap, <<0, Else>>, 0)]

(***************************************************************************)
(* lib.rs: match_character.  st is the record of the arguments passed by   *)
(* mutable reference; chk is the build profile.  A subtraction that would  *)
(* go below 0 panics when chk holds and wraps otherwise.                   *)
(***************************************************************************)
Panic(st) == [st EXCEPT !.panicked = TRUE]

\* '.' => wildcard
DotBranch(st, chk) ==
    IF chk /\ Underflows(st.curr_state) THEN Panic(st)
    ELSE [st EXCEPT !.transitions = Insert(@, <<Sub1(st.curr_state), Else>>, st.curr_state)]

\* the escape flag set without `*curr_state -= 1`
BackslashBranch_NoDecrement(st, chk) == [st EXCEPT !.escape = TRUE]

\* '\\' => escape
BackslashBranch(st, chk) ==
    IF chk /\ Underflows(st.curr_state) THEN Panic(st)
    ELSE [st EXCEPT !.escape = TRUE, !.curr_state = Sub1(@)]

\* '$' => end
DollarBranch(c, st, chk) ==
    IF chk /\ Underflows(st.curr_state) THEN Panic(st)
    ELSE [st EXCEPT !.end = TRUE,
                    !.transitions = Insert(@, <<Sub1(st.curr_state), If(c)>>, st.curr_state)]

\* '?' => zero or one
QuestionBranch(st, chk) ==
    IF chk /\ Underflows(st.curr_state) THEN Panic(st)
    ELSE LET n == Sub1(st.curr_state) IN
         IF chk /\ Underflows(n) THEN Panic(st)
         ELSE [st EXCEPT !.curr_state = n,
                         !.transitions = Insert(@, <<Sub1(n), Epsilon>>, n)]

\* normal character
LiteralBranch(c, st, chk) ==
    IF chk /\ Underflows(st.curr_state) THEN Panic(st)
    ELSE [st EXCEPT !.transitions = Insert(@, <<Sub1(st.curr_state), If(c)>>, st.curr_state),
                    !.last_char = <<c>>]

\* '+' written as if it were '*': the occurrence already consumed becomes optional
PlusBranch_AsStar(c, st, chk) ==
    IF st.last_char # <<>>
    THEN LET lc == st.last_char[1] IN
         IF chk /\ Underflows(st.curr_state) THEN Panic(st)
         ELSE LET n == Sub1(st.curr_state) IN
              IF chk /\ Underflows(n) THEN Panic(st)
              ELSE [st EXCEPT !.curr_state = n,
                              !.transitions =
                                  Insert(Insert(Remove(@, <<Sub1(n), If(lc)>>),
                                                <<Sub1(n), Epsilon>>, n),
                                         <<n, If(lc)>>, n)]
    ELSE LiteralBranch(c, st, chk)

\* '*' => zero or more
StarBranch(c, st, chk) ==
    IF st.last_char # <<>>
    THEN LET lc == st.last_char[1] IN
         IF chk /\ Underflows(st.curr_state) THEN Panic(st)
         ELSE LET n == Sub1(st.curr_state) IN
              IF chk /\ Underflows(n) THEN Panic(st)
              ELSE [st EXCEPT !.curr_state = n,
                              !.transitions =
                                  Insert(Insert(Remove(@, <<Sub1(n), If(lc)>>),
                                                <<Sub1(n), Epsilon>>, n),
                                         <<n, If(lc)>>, n)]
    ELSE LiteralBranch(c, st, chk)

\* '+' => one or more
PlusBranch(c, st, chk) ==
    IF st.last_char # <<>>
    THEN LET lc == st.last_char[1] IN
         IF chk /\ Underflows(st.curr_state) THEN Panic(st)
         ELSE LET n == Sub1(st.curr_state) IN
              [st EXCEPT !.curr_state = n,
                         !.transitions = Insert(@, <<n, If(lc)>>, n)]
    ELSE LiteralBranch(c, st, chk)

\* the escaped character inserted without `*escape = false`
EscapedBranch_KeepsEscape(c, st, chk) ==
    IF chk /\ Underflows(st.curr_state) THEN Panic(st)
    ELSE [st EXCEPT !.transitions = Insert(@, <<Sub1(st.curr_state), If(c)>>, st.curr_state),
                    !.last_char = <<c>>]

\* insert escaped character
EscapedBranch(c, st, chk) ==
    IF chk /\ Underflows(st.curr_state) THEN Panic(st)
    ELSE [st EXCEPT !.transitions = Insert(@, <<Sub1(st.curr_state), If(c)>>, st.curr_state),
                    !.last_char = <<c>>,
                    !.escape = FALSE]

MatchCharacter(c, st, chk) ==
    IF ~st.escape
    THEN CASE c = "."  -> DotBranch(st, chk)
           [] c = "\\" -> BackslashBranch(st, chk)
           [] c = "$"  -> DollarBranch(c, st, chk)
           [] c = "?"  -> QuestionBranch(st, chk)
           [] c = "*"  -> StarBranch(c, st, chk)
           [] c = "+"  -> PlusBranch(c, st, chk)
           [] OTHER    -> LiteralBranch(c, st, chk)
    ELSE EscapedBranch(c, st, chk)

(***************************************************************************)
(* lib.rs: check_end.                                                      *)
(***************************************************************************)
CheckEnd_IgnoreEnd(T, cs, e, chk) ==
    [transitions |-> Insert(T, <<cs, Else>>, cs), curr_state |-> cs, panicked |-> FALSE]

\* without the Else self-loop at the last state
CheckEnd_NoLoop(T, cs, e, chk) ==
    IF e
    THEN IF chk /\ Underflows(cs)
         THEN [transitions |-> T, curr_state |-> cs, panicked |-> TRUE]
         ELSE [transitions |-> Remove(T, <<Sub1(cs), If("$")>>),
               curr_state |-> Sub1(cs), panicked |-> FALSE]
    ELSE [transitions |-> T, curr_state |-> cs, panicked |-> FALSE]

CheckEnd(T, cs, e, chk) ==
    IF e
    THEN IF chk /\ Underflows(cs)
         THEN [transitions |-> T, curr_state |-> cs, panicked |-> TRUE]
         ELSE [transitions |-> Remove(T, <<Sub1(cs), If("$")>>),
               curr_state |-> Sub1(cs), panicked |-> FALSE]
    ELSE [transitions |-> Insert(T, <<cs, Else>>, cs), curr_state |-> cs, panicked |-> FALSE]

(***************************************************************************)
(* nfa.rs: the lookups of follow_epilon_transition and of run.             *)
(***************************************************************************)
\* recursing on curr instead of on the state just inserted
FollowTarget_SameState(T, curr) ==
    IF <<curr, Epsilon>> \in DOMAIN T THEN <<curr>> ELSE <<>>

\* the state follow_epilon_transition inserts and recurses on, if any
FollowTarget(T, curr) == Get(T, <<curr, Epsilon>>)

\* whether the calls of follow_epilon_transition nested in the call on curr
\* go on for ever: the walk along the Epsilon transitions comes back to a
\* state it has left
RECURSIVE FollowRevisits(_, _, _)
FollowRevisits(T, curr, left) ==
    IF FollowTarget(T, curr) = <<>> THEN FALSE
    ELSE IF curr \in left THEN TRUE
    ELSE FollowRevisits(T, FollowTarget(T, curr)[1], left \cup {curr})
FollowNeverReturns(T, curr) == FollowRevisits(T, curr, {})

\* only the If(c) lookup, without the Else fallback
StepTarget_NoElse(T, s, c) == Get(T, <<s, If(c)>>)

\* the Else lookup first, the If(c) lookup when it finds nothing
StepTarget_ElseFirst(T, s, c) ==
    IF Get(T, <<s, Else>>) # <<>> THEN Get(T, <<s, Else>>) ELSE Get(T, <<s, If(c)>>)

\* the state one active state s leads to on character c, if any:
\* the If(c) lookup first, the Else lookup when it finds nothing
StepTarget(T, s, c) ==
    IF Get(T, <<s, If(c)>>) # <<>> THEN Get(T, <<s, If(c)>>) ELSE Get(T, <<s, Else>>)

(***************************************************************************)
(* nfa.rs: run as a function of the automaton and the input: the set that  *)
(* follow_epilon_transition(curr, states) leaves in states, and the        *)
(* booleans run can return from input position i on with the active set    *)
(* states, one for each state with a transition that the iterator of the   *)
(* HashSet can yield first.  Used on automata whose Epsilon transitions    *)
(* form no cycle.                                                          *)
(***************************************************************************)
RECURSIVE FollowEpsilonTransition(_, _, _)
FollowEpsilonTransition(T, curr, states) ==
    IF FollowTarget(T, curr) = <<>> THEN states
    ELSE FollowEpsilonTransition(T, FollowTarget(T, curr)[1],
                                 states \cup {FollowTarget(T, curr)[1]})

RECURSIVE RunFrom(_, _, _, _, _)
RunFrom(T, F, inp, i, states) ==
    IF i > Len(inp) THEN {states \cap F # {}}
    ELSE LET matching == {s \in states : StepTarget(T, s, inp[i]) # <<>>} IN
         IF matching = {} THEN {FALSE}
         ELSE UNION {RunFrom(T, F, inp, i + 1,
                             FollowEpsilonTransition(T, StepTarget(T, s, inp[i])[1],
                                                     {StepTarget(T, s, inp[i])[1]}))
                       : s \in matching}
RunOutcomes(T, F, inp) == RunFrom(T, F, inp, 1, FollowEpsilonTransition(T, 0, {0}))

(***************************************************************************)
(* Initial state: compile_and_run(expression, input) is about to be        *)
(* called.  Locals that are not in scope yet hold a fixed value.           *)
(***************************************************************************)
Init ==
    /\ \/ /\ built_by = "compile"
          /\ \E cs \in Cases : expression = cs[1] /\ input = cs[2]
          /\ pc = "compile"
          /\ transitions = EmptyMap
          /\ accepting_states = {}
       \/ /\ built_by = "new"
          /\ expression = <<>>
          /\ input \in CallerInputs
          /\ pc = "run"
          /\ \E nfa \in CallerAutomata :
                /\ transitions = nfa.transitions
                /\ accepting_states = nfa.accepting_states
    /\ overflow_checks \in BOOLEAN
    /\ round = 1
    /\ idx = 1
    /\ start = FALSE
    /\ current_state = 0
    /\ escape = FALSE
    /\ last_char = <<>>
    /\ end = FALSE
    /\ last_state = 0
    /\ current_states = {}
    /\ pos = 1
    /\ eps_curr = 0
    /\ depth = 0
    /\ result = <<>>
    /\ first_result = <<>>

(***************************************************************************)
(* lib.rs: compile, up to the call of iterate_through_expression, and the  *)
(* locals of iterate_through_expression.                                   *)
(***************************************************************************)
CompileStart ==
    /\ pc = "compile"
    /\ LET r == CheckStart(expression) IN
         /\ start' = r.start
         /\ transitions' = r.transitions
    /\ end' = FALSE
    /\ current_state' = 0
    /\ escape' = FALSE
    /\ last_char' = <<>>
    /\ idx' = 1
    /\ accepting_states' = {}
    /\ pc' = "iterate"
    /\ UNCHANGED <<expression, input, overflow_checks, built_by, round, runVars, result, first_result>>

(***************************************************************************)
(* lib.rs: one iteration of the loop of iterate_through_expression.        *)
(***************************************************************************)
IterateStep ==
    /\ pc = "iterate"
    /\ idx <= Len(expression)
    /\ IF start
       THEN \* If ^ was at the start then don't read it
            /\ start' = FALSE
            /\ end' = FALSE
            /\ idx' = idx + 1
            /\ UNCHANGED <<transitions, current_state, escape, last_char, pc>>
       ELSE LET r == MatchCharacter(expression[idx],
                                    [curr_state |-> current_state + 1,
                                     transitions |-> transitions,
                                     escape |-> escape,
                                     last_char |-> last_char,
                                     end |-> FALSE,
                                     panicked |-> FALSE],
                                    overflow_checks)
            IN IF r.panicked
               THEN /\ pc' = "panic"
                    /\ UNCHANGED compileVars
               ELSE /\ current_state' = r.curr_state
                    /\ transitions' = r.transitions
                    /\ escape' = r.escape
                    /\ last_char' = r.last_char
                    /\ end' = r.end
                    /\ idx' = idx + 1
                    /\ UNCHANGED <<start, pc>>
    /\ UNCHANGED <<expression, input, overflow_checks, built_by, round, accepting_states,
                   runVars, result, first_result>>

(***************************************************************************)
(* lib.rs: compile, after iterate_through_expression has returned:         *)
(* check_end, the accepting state and NFA::new.                            *)
(***************************************************************************)
CompileFinish ==
    /\ pc = "iterate"
    /\ idx > Len(expression)
    /\ LET r == CheckEnd(transitions, current_state, end, overflow_checks) IN
         IF r.panicked
         THEN /\ pc' = "panic"
              /\ UNCHANGED <<transitions, current_state, accepting_states>>
         ELSE /\ transitions' = r.transitions
              /\ current_state' = r.curr_state
              /\ accepting_states' = {r.curr_state}
              /\ pc' = "run"
    /\ UNCHANGED <<expression, input, overflow_checks, built_by, round, idx, start, escape,
                   last_char, end, runVars, result, first_result>>

(***************************************************************************)
(* nfa.rs: run, up to the first call of follow_epilon_transition.          *)
(***************************************************************************)
RunStart ==
    /\ pc = "run"
    /\ last_state' = 0
    /\ current_states' = {0}
    /\ eps_curr' = 0
    /\ depth' = 1
    /\ pos' = 1
    /\ pc' = "closure"
    /\ UNCHANGED <<expression, input, overflow_checks, built_by, round, compileVars,
                   accepting_states, result, first_result>>

(***************************************************************************)
(* nfa.rs: follow_epilon_transition finds an Epsilon transition, inserts   *)
(* its destination and calls itself on it.                                 *)
(***************************************************************************)
FollowEpsilon ==
    /\ pc = "closure"
    /\ FollowTarget(transitions, eps_curr) # <<>>
    /\ LET new_state == FollowTarget(transitions, eps_curr)[1] IN
         /\ current_states' = current_states \cup {new_state}
         /\ eps_curr' = new_state
    /\ depth' = IF depth >= MaxDepth /\ FollowNeverReturns(transitions, eps_curr)
                THEN depth
                ELSE depth + 1
    /\ UNCHANGED <<expression, input, overflow_checks, built_by, round, compileVars,
                   accepting_states, last_state, pos, pc, result, first_result>>

(***************************************************************************)
(* nfa.rs: follow_epilon_transition keeps no record of the states it has   *)
(* visited and has no limit on its nested calls.  Each nested call takes a *)
(* frame of the call stack, and how many frames are left is decided by the *)
(* build, by the frames of the caller and by the stack of the calling      *)
(* thread, with no lower bound: any nested call can be the one that the    *)
(* stack does not hold, on a chain of Epsilon transitions as on a cycle,   *)
(* and then the process is aborted.  Where the stack holds the call, or    *)
(* the compiler turned the tail call into a loop, FollowEpsilon goes on:   *)
(* to the end of the chain, or for ever on a cycle.  On a recursion that   *)
(* never ends depth stops counting at MaxDepth and stands for every larger *)
(* number of nested calls.                                                 *)
(***************************************************************************)
StackOverflow ==
    /\ pc = "closure"
    /\ FollowTarget(transitions, eps_curr) # <<>>
    /\ pc' = "stack_overflow"
    /\ UNCHANGED <<expression, input, overflow_checks, built_by, round, compileVars,
                   accepting_states, runVars, result, first_result>>

(***************************************************************************)
(* nfa.rs: follow_epilon_transition finds no Epsilon transition; the       *)
(* innermost call and all its callers return.                              *)
(***************************************************************************)
FollowReturn ==
    /\ pc = "closure"
    /\ FollowTarget(transitions, eps_curr) = <<>>
    /\ depth' = 0
    /\ pc' = "loop"
    /\ UNCHANGED <<expression, input, overflow_checks, built_by, round, compileVars,
                   accepting_states, last_state, current_states, pos, eps_curr,
                   result, first_result>>

(***************************************************************************)
(* nfa.rs: one iteration of `for c in input.chars()`, up to the call of    *)
(* follow_epilon_transition.  The inner loop visits current_states in the  *)
(* order of the HashSet's iterator, which is not fixed, and stops at the   *)
(* first state that has a transition on c: any active state that has one   *)
(* can be that state.                                                      *)
(***************************************************************************)
RunStep ==
    /\ pc = "loop"
    /\ pos <= Len(input)
    /\ LET c == input[pos]
           matching == {s \in current_states : StepTarget(transitions, s, c) # <<>>}
       IN IF matching = {}
          THEN \* count_successes == 0
               /\ result' = <<FALSE>>
               /\ pc' = "done"
               /\ UNCHANGED runVars
          ELSE \E state \in matching :
                 LET new_state == StepTarget(transitions, state, c)[1] IN
                   /\ last_state' = new_state
                   /\ current_states' = {new_state}
                   /\ eps_curr' = new_state
                   /\ depth' = 1
                   /\ pos' = pos + 1
                   /\ pc' = "closure"
                   /\ UNCHANGED result
    /\ UNCHANGED <<expression, input, overflow_checks, built_by, round, compileVars,
                   accepting_states, first_result>>

(***************************************************************************)
(* nfa.rs: run, after the input is consumed.                               *)
(***************************************************************************)
RunFinish ==
    /\ pc = "loop"
    /\ pos > Len(input)
    /\ result' = <<current_states \cap accepting_states # {}>>
    /\ pc' = "done"
    /\ UNCHANGED <<expression, input, overflow_checks, built_by, round, compileVars,
                   accepting_states, runVars, first_result>>

(***************************************************************************)
(* The caller evaluates the same pattern on the same input once more:      *)
(* with the automaton it holds (compile's "Can be reused for multiple      *)
(* runs") or through compile_and_run again.                                *)
(***************************************************************************)
Again ==
    /\ pc = "done"
    /\ round = 1
    /\ round' = 2
    /\ first_result' = result
    /\ result' = <<>>
    /\ last_state' = 0
    /\ current_states' = {}
    /\ pos' = 1
    /\ eps_curr' = 0
    /\ depth' = 0
    /\ \E recompile \in {FALSE, built_by = "compile"} :
          pc' = IF recompile THEN "compile" ELSE "run"
    /\ UNCHANGED <<expression, input, overflow_checks, built_by, compileVars, accepting_states>>

Next ==
    \/ CompileStart
    \/ IterateStep
    \/ CompileFinish
    \/ RunStart
    \/ FollowEpsilon
    \/ StackOverflow
    \/ FollowReturn
    \/ RunStep
    \/ RunFinish
    \/ Again

Spec == Init /\ [][Next]_vars

\* Nothing suspends the program: a step that can be taken is taken.  That
\* the call stack is exhausted is no such step: in a build where the
\* recursion is a loop it never happens.
FairSpec == Spec /\ WF_vars(Next /\ pc' # "stack_overflow")

(***************************************************************************)
(* Vocabulary of the properties.                                           *)
(***************************************************************************)
IsPlainWord(w) == Len(w) > 0 /\ \A i \in 1..Len(w) : w[i] \notin MetaChars
IsPrefixOf(w, s) == Len(w) <= Len(s) /\ SubSeq(s, 1, Len(w)) = w
IsSuffixOf(w, s) == Len(w) <= Len(s) /\ SubSeq(s, Len(s) - Len(w) + 1, Len(s)) = w
Count(s, ch) == Cardinality({i \in 1..Len(s) : s[i] = ch})
Compiled == built_by = "compile" /\ pc \in {"run", "closure", "loop", "done"}
Returned == pc = "done"

(***************************************************************************)
(* The number of backslashes that directly precede position i of p, and    *)
(* the patterns whose last character is a `$`, or a backslash, that no     *)
(* backslash escapes.                                                      *)
(***************************************************************************)
BackslashesBefore(p, i) ==
    CHOOSE k \in 0..(i - 1) :
        /\ \A j \in (i - k)..(i - 1) : p[j] = "\\"
        /\ (k = i - 1 \/ p[i - k - 1] # "\\")
EndsWithUnescapedDollar(p) ==
    /\ Len(p) > 0
    /\ p[Len(p)] = "$"
    /\ BackslashesBefore(p, Len(p)) % 2 = 0
EndsWithDanglingEscape(p) ==
    /\ Len(p) > 0
    /\ p[Len(p)] = "\\"
    /\ BackslashesBefore(p, Len(p)) % 2 = 0

(***************************************************************************)
(* C1: run(compile(p), s) returns the same boolean on every evaluation,    *)
(* whether the compiled automaton is run twice or p is compiled twice; the *)
(* result does not depend on the order in which the engine visits the      *)
(* states of the active-state set.                                         *)
(***************************************************************************)
C1_SameResultOnEveryEvaluation ==
    (round = 2 /\ Returned) => result = first_result

(***************************************************************************)
(* C2: compile never fails: for every pattern it completes without a fault *)
(* and without a subtraction taking the unsigned state counter below 0.    *)
(***************************************************************************)
C2_CompileNeverFails ==
    /\ pc # "panic"
    /\ current_state # U32_MAX
    /\ \A key \in DOMAIN transitions : key[1] # U32_MAX /\ transitions[key] # U32_MAX

(***************************************************************************)
(* C3: for every automaton returned by compile and every input, run        *)
(* terminates and returns a boolean: every epsilon-closure finishes within *)
(* a number of nested calls bounded by the pattern, the loop takes one     *)
(* step per input character, and a run that has started returns: it does   *)
(* not end in an exhausted call stack.                                     *)
(***************************************************************************)
C3_RunTerminates ==
    /\ [](built_by = "compile" => pc # "stack_overflow")
    /\ [](pc = "closure" /\ built_by = "compile" => depth <= Len(expression) + 1)
    /\ [](Returned => /\ result \in {<<TRUE>>, <<FALSE>>}
                      /\ (pos = Len(input) + 1 \/ result = <<FALSE>>))
    /\ (pc = "run" /\ built_by = "compile" ~> Returned)

\* a run over two or more characters has returned after a closure that
\* followed an Epsilon transition from the state reached on the last character
C3_Witness ==
    /\ Returned
    /\ built_by = "compile"
    /\ Len(input) >= 2
    /\ pos = Len(input) + 1
    /\ <<last_state, Epsilon>> \in DOMAIN transitions
    /\ Cardinality(current_states) >= 2

(***************************************************************************)
(* C4: unanchored search: for every pattern p of plain literal characters  *)
(* and every string u, the input u followed by p is accepted.              *)
(***************************************************************************)
C4_UnanchoredSearch ==
    (Returned /\ IsPlainWord(expression) /\ IsSuffixOf(expression, input))
        => result = <<TRUE>>

(***************************************************************************)
(* C5: optional quantifier: the pattern a?b?c?d accepts every input        *)
(* obtained from abcd by deleting any subset of the letters a, b, c.       *)
(***************************************************************************)
C5_OptionalQuantifier ==
    (Returned /\ expression = OptPattern /\ input \in OptInputs) => result = <<TRUE>>

(***************************************************************************)
(* C6: star quantifier: the pattern a*b*c*d accepts every input of the     *)
(* form a^i b^j c^k d with i, j, k >= 0.                                   *)
(***************************************************************************)
C6_StarQuantifier ==
    (Returned /\ expression = StarPattern /\ input \in QuantInputs) => result = <<TRUE>>

(***************************************************************************)
(* C7: plus quantifier: on an input of the form a^i b^j c^k d the pattern  *)
(* a+b+c+d returns true if and only if i >= 1, j >= 1 and k >= 1.          *)
(***************************************************************************)
C7_PlusQuantifier ==
    (Returned /\ expression = PlusPattern /\ input \in QuantInputs)
        => result = <<Count(input, "a") >= 1 /\ Count(input, "b") >= 1
                      /\ Count(input, "c") >= 1>>

\* a+b+c+d has accepted an input that repeats a and c
C7_Witness ==
    /\ Returned
    /\ expression = PlusPattern
    /\ input = ABCD(2, 1, 2)
    /\ result = <<TRUE>>

(***************************************************************************)
(* C8: start anchor: for every nonempty word w of plain literal characters *)
(* and every input s, the pattern ^w returns true if and only if s begins  *)
(* with w.                                                                 *)
(***************************************************************************)
C8_StartAnchor ==
    (Returned /\ Len(expression) >= 2 /\ expression[1] = "^"
              /\ IsPlainWord(Tail(expression)))
        => result = <<IsPrefixOf(Tail(expression), input)>>

\* ^w has rejected an input that contains w, but not at its beginning
C8_Witness ==
    /\ Returned
    /\ Len(expression) >= 3 /\ expression[1] = "^"
    /\ IsPlainWord(Tail(expression))
    /\ IsSuffixOf(Tail(expression), input)
    /\ ~IsPrefixOf(Tail(expression), input)
    /\ result = <<FALSE>>

(***************************************************************************)
(* C9: end anchor: for every nonempty word w of plain literal characters,  *)
(* compile(w$) has removed the provisional If('$') edge and accepts in the *)
(* state reached after w; w$ accepts w, and accepts an input s only if s   *)
(* ends with w.                                                            *)
(***************************************************************************)
C9_EndAnchor ==
    LET n == Len(expression) - 1
        w == SubSeq(expression, 1, n)
    IN (Compiled /\ n >= 1 /\ expression[n + 1] = "$" /\ IsPlainWord(w))
         => /\ accepting_states = {n}
            /\ <<n, If("$")>> \notin DOMAIN transitions
            /\ \A i \in 1..n : Get(transitions, <<i - 1, If(w[i])>>) = <<i>>
            /\ Returned => /\ result = <<TRUE>> => IsSuffixOf(w, input)
                           /\ input = w => result = <<TRUE>>

\* w$ has accepted w itself, for a word of two or more characters
C9_Witness ==
    /\ Returned
    /\ Len(expression) >= 3 /\ expression[Len(expression)] = "$"
    /\ IsPlainWord(SubSeq(expression, 1, Len(expression) - 1))
    /\ input = SubSeq(expression, 1, Len(expression) - 1)
    /\ result = <<TRUE>>

(***************************************************************************)
(* C10: empty pattern: compile("") yields an automaton whose start state 0 *)
(* is accepting and carries an Else self-loop, so every input, the empty   *)
(* one included, is accepted.                                              *)
(***************************************************************************)
C10_EmptyPattern ==
    (Compiled /\ expression = <<>>)
        => /\ accepting_states = {0}
           /\ Get(transitions, <<0, Else>>) = <<0>>
           /\ Returned => result = <<TRUE>>

\* the empty pattern has accepted a nonempty input
C10_Witness ==
    /\ Returned
    /\ built_by = "compile"
    /\ expression = <<>>
    /\ Len(input) >= 1
    /\ result = <<TRUE>>

(***************************************************************************)
(* C11: escape: an unescaped backslash followed by any character m, the    *)
(* metacharacters included, consumes exactly one state and adds exactly    *)
(* the edge If(m) from state n-1 to n, with no wildcard, anchor or         *)
(* quantifier effect; a\m accepts am and no other two-character input      *)
(* that starts with a, a\.cd accepts a.cd and rejects axcd.                *)
(***************************************************************************)
C11_Escape ==
    /\ [][(pc = "iterate" /\ idx <= Len(expression) /\ ~start /\ ~escape
               /\ expression[idx] = "\\")
            => /\ pc' = "iterate"
               /\ escape'
               /\ current_state' = current_state
               /\ transitions' = transitions]_vars
    /\ [][(pc = "iterate" /\ idx <= Len(expression) /\ escape)
            => /\ pc' = "iterate"
               /\ ~escape'
               /\ ~end'
               /\ current_state' = current_state + 1
               /\ transitions' = Insert(transitions,
                                        <<current_state, If(expression[idx])>>,
                                        current_state + 1)]_vars
    /\ [](Compiled /\ Len(expression) = 3 /\ expression[1] = "a" /\ expression[2] = "\\"
            => /\ accepting_states = {2}
               /\ transitions = FromList({<<<<0, Else>>, 0>>, <<<<0, If("a")>>, 1>>,
                                          <<<<1, If(expression[3])>>, 2>>,
                                          <<<<2, Else>>, 2>>})
               /\ (Returned /\ Len(input) = 2 /\ input[1] = "a")
                    => result = <<input[2] = expression[3]>>)
    /\ [](Returned /\ expression = EscapeDotPattern
            => /\ input = <<"a", ".", "c", "d">> => result = <<TRUE>>
               /\ input = <<"a", "x", "c", "d">> => result = <<FALSE>>)

\* a\m, for a metacharacter m, has accepted the input am
C11_Witness ==
    /\ Returned
    /\ Len(expression) = 3 /\ expression[1] = "a" /\ expression[2] = "\\"
    /\ expression[3] \in MetaChars
    /\ input = <<"a", expression[3]>>
    /\ result = <<TRUE>>

(***************************************************************************)
(* C12: a quantifier (?, * or +) with no preceding literal, at the start   *)
(* of the pattern or directly after a leading ^, is a no-op: compile adds  *)
(* no edge for it, does not advance the state counter and performs no      *)
(* underflow.                                                              *)
(***************************************************************************)
C12_LeadingQuantifierNoOp ==
    [][(pc = "iterate" /\ idx <= Len(expression) /\ ~start /\ ~escape
            /\ expression[idx] \in {"?", "*", "+"}
            /\ (idx = 1 \/ (idx = 2 /\ expression[1] = "^")))
         => /\ pc' = "iterate"
            /\ transitions' = transitions
            /\ current_state' = current_state]_vars

(***************************************************************************)
(* C13: dangling escape: for every pattern that ends with an unescaped     *)
(* backslash that no character follows, compile does not fail, adds no     *)
(* edge for the backslash, the backslash consumes no state, and the        *)
(* accepting state is the state the scan had reached before the backslash. *)
(***************************************************************************)
C13_DanglingEscape ==
    /\ [](EndsWithDanglingEscape(expression) => pc # "panic")
    /\ [][(pc = "iterate" /\ idx = Len(expression) /\ ~start /\ ~escape
               /\ expression[idx] = "\\")
            => /\ pc' = "iterate"
               /\ escape'
               /\ transitions' = transitions
               /\ current_state' = current_state]_vars
    /\ [][(pc = "iterate" /\ idx > Len(expression) /\ escape)
            => /\ pc' = "run"
               /\ accepting_states' = {current_state}
               /\ transitions' = Insert(transitions, <<current_state, Else>>, current_state)]_vars
    /\ [](Compiled /\ expression = <<"a", "\\">>
            => /\ accepting_states = {1}
               /\ transitions = FromList({<<<<0, Else>>, 0>>, <<<<0, If("a")>>, 1>>,
                                          <<<<1, Else>>, 1>>}))

\* a\ has been compiled with the escape still pending, and has accepted a
C13_Witness ==
    /\ Returned
    /\ built_by = "compile"
    /\ expression = <<"a", "\\">>
    /\ escape
    /\ input = <<"a">>
    /\ result = <<TRUE>>

(***************************************************************************)
(* The simulation step as the specification words it: the epsilon-closure  *)
(* of a state, and the union, over the active states, of the closure of    *)
(* the state each one leads to on c (If(c) first, Else otherwise).         *)
(***************************************************************************)
RECURSIVE EpsilonReach(_, _, _)
EpsilonReach(T, s, seen) ==
    IF s \in seen THEN seen
    ELSE IF <<s, Epsilon>> \in DOMAIN T
         THEN EpsilonReach(T, T[<<s, Epsilon>>], seen \cup {s})
         ELSE seen \cup {s}
EpsilonClosure(T, s) == EpsilonReach(T, s, {})
HasEdge(T, s, c) == <<s, If(c)>> \in DOMAIN T \/ <<s, Else>> \in DOMAIN T
EdgeTo(T, s, c) == IF <<s, If(c)>> \in DOMAIN T THEN T[<<s, If(c)>>] ELSE T[<<s, Else>>]
UnionStep(T, A, c) == UNION {EpsilonClosure(T, EdgeTo(T, s, c)) : s \in {a \in A : HasEdge(T, a, c)}}

(***************************************************************************)
(* C14: simulation step: the active-state set after consuming c equals the *)
(* union, over every active state s, of the epsilon-closure of the         *)
(* destination of (s, If(c)) if that edge exists, else of (s, Else); no    *)
(* active state with an applicable edge is left out.  (The set run builds  *)
(* after a step is the closure of the one state it stepped to.)            *)
(***************************************************************************)
C14_SimulationStep ==
    [][(pc = "loop" /\ pos <= Len(input) /\ built_by = "compile")
         => IF UnionStep(transitions, current_states, input[pos]) = {}
            THEN pc' = "done" /\ result' = <<FALSE>>
            ELSE /\ pc' = "closure"
                 /\ EpsilonClosure(transitions, last_state')
                      = UnionStep(transitions, current_states, input[pos])]_vars

(***************************************************************************)
(* C15: for every automaton produced by compile and every input, at every  *)
(* step of run at most one state of the active-state set has a transition  *)
(* (If(c) or Else) on the current character c.                             *)
(***************************************************************************)
C15_AtMostOneApplicableState ==
    (Compiled /\ pc = "loop" /\ pos <= Len(input))
        => Cardinality({s \in current_states : HasEdge(transitions, s, input[pos])}) <= 1

(***************************************************************************)
(* C16: for every pattern that does not start with ^, the transition       *)
(* relation returned by compile contains the Else self-loop from state 0   *)
(* to state 0, also when the first character of the pattern is `.`.        *)
(***************************************************************************)
C16_PrefixLoopPresent ==
    (Compiled /\ ~(Len(expression) > 0 /\ expression[1] = "^"))
        => Get(transitions, <<0, Else>>) = <<0>>

(***************************************************************************)
(* C17: for a pattern that holds c+ or c* after a plain literal c, the     *)
(* If(c) self-loop added at the destination state of that literal is still *)
(* present in the transition relation compile returns, whatever pattern    *)
(* characters follow; ^a+a$ accepts aaa.  (For a quantified literal at the *)
(* start of the pattern, or directly after a leading ^, the destination    *)
(* state is state 1.)                                                      *)
(***************************************************************************)
C17_SelfLoopKept ==
    LET k == IF Len(expression) > 0 /\ expression[1] = "^" THEN 1 ELSE 0 IN
      /\ (Compiled /\ Len(expression) >= k + 2
                   /\ expression[k + 1] \notin MetaChars
                   /\ expression[k + 2] \in {"+", "*"})
           => Get(transitions, <<1, If(expression[k + 1])>>) = <<1>>
      /\ (Returned /\ expression = <<"^", "a", "+", "a", "$">> /\ input = <<"a", "a", "a">>)
           => result = <<TRUE>>

(***************************************************************************)
(* C18: trailing input: for every pattern that does not end with an        *)
(* unescaped `$`, the final state carries an Else self-loop, and once the  *)
(* active-state set of a run contains the accepting state it contains it   *)
(* after every further input character; hence if an input s is accepted,   *)
(* every extension of s is accepted: when run can return true on a proper  *)
(* prefix of the input, it returns true on the input.                      *)
(***************************************************************************)
C18_TrailingInput ==
    /\ [](Compiled /\ ~EndsWithUnescapedDollar(expression)
            => \A k \in 0..(Len(input) - 1) :
                  TRUE \in RunOutcomes(transitions, accepting_states, SubSeq(input, 1, k))
                     => RunOutcomes(transitions, accepting_states, input) = {TRUE})
    /\ [](Compiled /\ ~EndsWithUnescapedDollar(expression)
            => \A f \in accepting_states : Get(transitions, <<f, Else>>) = <<f>>)
    /\ [](Compiled /\ pc = "loop"
            => current_states = EpsilonClosure(transitions, last_state))
    /\ [][(Compiled /\ ~EndsWithUnescapedDollar(expression) /\ pc = "loop"
               /\ current_states \cap accepting_states # {})
            => IF pos <= Len(input)
               THEN /\ pc' = "closure"
                    /\ EpsilonClosure(transitions, last_state') \cap accepting_states # {}
               ELSE pc' = "done" /\ result' = <<TRUE>>]_vars
    /\ [](Returned /\ built_by = "compile" /\ IsPlainWord(expression)
               /\ IsPrefixOf(expression, input)
            => result = <<TRUE>>)

\* a has accepted ax: state 1 was active after a and is active after x
C18_Witness ==
    /\ Returned
    /\ built_by = "compile"
    /\ expression = <<"a">>
    /\ input = <<"a", "x">>
    /\ pos = 3
    /\ current_states = {1}
    /\ accepting_states = {1}
    /\ result = <<TRUE>>

(***************************************************************************)
(* C19: the epsilon-closure is cycle-safe: for every automaton that can be *)
(* passed to NFA::new, also one whose Epsilon edges form a cycle, the      *)
(* closure computation visits each state at most once (it makes no more    *)
(* nested calls than it has states in the set) and run does not end in an  *)
(* exhausted call stack.                                                   *)
(***************************************************************************)
C19_ClosureCycleSafe ==
    /\ pc # "stack_overflow"
    /\ pc = "closure" => depth <= Cardinality(current_states)

(***************************************************************************)
(* C20: per source state, If(c) has priority over Else: the state a step   *)
(* of run goes to is, for some active state s, the destination of          *)
(* (s, If(c)) when s has that edge, and the destination of (s, Else) only  *)
(* when s has no If(c) edge.  With (0, Else) -> 1 and (0, If('0')) -> 2    *)
(* and accepting state 1, the input 0 is rejected and the input 1 is       *)
(* accepted.                                                               *)
(***************************************************************************)
C20_LiteralPriority ==
    /\ [][(pc = "loop" /\ pos <= Len(input) /\ pc' = "closure")
            => \E s \in current_states :
                  /\ HasEdge(transitions, s, input[pos])
                  /\ last_state' = EdgeTo(transitions, s, input[pos])]_vars
    /\ [][(pc = "loop" /\ pos <= Len(input) /\ pc' = "done")
            => \A s \in current_states : ~HasEdge(transitions, s, input[pos])]_vars
    /\ [](Returned /\ built_by = "new" /\ transitions = TransitionOnSome.transitions
               /\ accepting_states = TransitionOnSome.accepting_states
            => /\ input = <<"0">> => result = <<FALSE>>
               /\ input = <<"1">> => result = <<TRUE>>)

\* state 0 has both edges, the character is 0, and the step went to state 2
C20_Witness ==
    /\ Returned
    /\ built_by = "new"
    /\ transitions = TransitionOnSome.transitions
    /\ input = <<"0">>
    /\ last_state = 2
    /\ result = <<FALSE>>

(***************************************************************************)
(* The order and the successor of state numbers as the u32 values they     *)
(* are: U32_MAX is greater than every other state and has no successor.    *)
(***************************************************************************)
StateGreater(a, b) == IF a = U32_MAX THEN b # U32_MAX ELSE b # U32_MAX /\ a > b
IsNextState(s, d) == s # U32_MAX /\ d = s + 1
StatesOf(T) == {key[1] : key \in DOMAIN T} \cup {T[key] : key \in DOMAIN T}

(***************************************************************************)
(* C21: shape of every compiled automaton, for every pattern on which      *)
(* compile completes: each transition goes from a state s to s itself or   *)
(* to s+1, each Epsilon transition goes from s to s+1, and no state        *)
(* mentioned in the transition relation is greater than the single         *)
(* accepting state.                                                        *)
(***************************************************************************)
C21_CompiledShape ==
    Compiled =>
        /\ \A key \in DOMAIN transitions :
              /\ transitions[key] = key[1] \/ IsNextState(key[1], transitions[key])
              /\ key[2] = Epsilon => IsNextState(key[1], transitions[key])
        /\ \E f \in accepting_states :
              /\ accepting_states = {f}
              /\ \A s \in StatesOf(transitions) : ~StateGreater(s, f)

====
